---- MODULE Spec2Model ----
(***************************************************************************)
(* A model of src/linkedin-zip-bot.js (class LinkedInZipBot).              *)
(*                                                                         *)
(* The bot is one single-threaded async flow.  Every action below is the   *)
(* code that runs between two suspension points (an await, a timer, a      *)
(* call into another async method); the page (its DOM, its own calls to    *)
(* window.fetch, the server's answer) acts between them.                   *)
(*                                                                         *)
(* Strings are sequences of tokens, so that String.includes, URL parsing   *)
(* and concatenation are computed and not assumed: the token               *)
(* "/voyager/api/graphql" is the resource path marker, "gameTypeId:6" the  *)
(* puzzle-type marker, "#" starts a URL fragment and the first token of    *)
(* an absolute URL is its origin.                                          *)
(***************************************************************************)
EXTENDS Integers, Sequences, FiniteSets, TLC

VARIABLES
  entry,          \* the method the page called: "detectApiUrl", "solvePuzzle", "run", "getDirection"
  pc,             \* where the async flow is suspended
  apiUrl,         \* this.apiUrl
  puzzle,         \* this.puzzle
  gridSize,       \* this.gridSize
  solution,       \* this.solution
  perf,           \* the page's resource-timing log: [throws, entries]
  windowFetch,    \* what window.fetch currently is: "native" or "wrapper"
  originalFetch,  \* the closure's originalFetch ("none" before line 34 ran)
  capturedUrls,   \* the closure's capturedUrls
  detectResult,   \* the promise detectApiUrl returned: [state, value]
  restores,       \* how many times line 70 (window.fetch = originalFetch) ran
  uiClicks,       \* the controls the bot activated, in order
  fetchCalls,     \* the arguments window.fetch was called with, in order
  nativeCalls,    \* the arguments that reached the native fetch, in order
  fetchReturns,   \* per call of window.fetch, the native call whose result it returned (0: none)
  dom,            \* the board's DOM: [board, grid, cells]
  elapsed,        \* Date.now() - startTime inside waitForGameBoard
  boardReady,     \* what waitForGameBoard returned: "none", "true", "false"
  stepIdx,        \* the loop variable i of solvePuzzle
  events,         \* the input events solvePuzzle dispatched, in order
  keyResults,     \* what simulateKeyPress returned, call by call
  console,        \* the diagnostics written so far (a set of tags)
  dirFrom,        \* getDirection's arguments and result when called alone
  dirTo,
  dirResult,
  dirCoords,      \* the coordinates getDirection computed: [from, to]
  page,           \* where the page keeps the session token: [cookie, meta, stored]
  manualCSRFToken,\* this.manualCSRFToken
  requests,       \* the requests fetchPuzzle issued, in order: [url, csrfToken]
  response,       \* the response fetchPuzzle received
  fetchError,     \* the error fetchPuzzle threw
  second          \* the closure of a second, overlapping call of detectApiUrl

vars == <<entry, pc, apiUrl, puzzle, gridSize, solution, perf, windowFetch,
          originalFetch, capturedUrls, detectResult, restores, uiClicks,
          fetchCalls, nativeCalls, fetchReturns, dom, elapsed, boardReady, stepIdx, events,
          keyResults, console, dirFrom, dirTo, dirResult, dirCoords, page,
          manualCSRFToken, requests, response, fetchError, second>>

(***************************************************************************)
(* Bounds of the model.                                                    *)
(***************************************************************************)
MaxPerf == 2          \* entries in the resource-timing log
MaxPageFetch == 2     \* calls of window.fetch by the page, detectApiUrl alone
MaxButtons == 2       \* <button> elements scanned for "Refresh"/"Play"
MaxGrid == 4          \* grid sizes getDirection is called with, alone
MaxLen == 3           \* cells of a solution replayed by solvePuzzle
MaxRunPageFetch == 1  \* calls of window.fetch by the page during run()
MaxCookies == 2       \* rows of document.cookie

(***************************************************************************)
(* Strings.                                                                *)
(***************************************************************************)
PathMarker == "/voyager/api/graphql"
TypeMarker == "gameTypeId:6"
Origin == "https://www.linkedin.com"
Hash == "#"
Null == <<>>          \* null, and the empty string: both are falsy

ConstructorApiUrl ==
  << "/voyager/api/graphql", "?includeWebMetadata=true&variables=(",
     "gameTypeId:6",
     ")&queryId=voyagerIdentityDashGames.b13494b14a45c551e881ca8aa820dff0" >>

StaleFallbackUrl ==
  << "/voyager/api/graphql", "?variables=(", "gameTypeId:6",
     ")&queryId=voyagerIdentityDashGames.b13494b14a45c551e881ca8aa820dff0" >>

FallbackUrl ==
  << "/voyager/api/graphql", "?includeWebMetadata=true&variables=(",
     "gameTypeId:6",
     ")&queryId=voyagerIdentityDashGames.b13494b14a45c551e881ca8aa820dff0" >>

includes(s, marker) == \E i \in 1..Len(s) : s[i] = marker

Min(S) == CHOOSE x \in S : \A y \in S : x <= y

\* new URL(name): pathname + search of an absolute URL, the fragment dropped.
IsAbsolute(name) == Len(name) > 0 /\ name[1] = Origin

HashPos(name) ==
  IF \E i \in 1..Len(name) : name[i] = Hash
  THEN Min({i \in 1..Len(name) : name[i] = Hash})
  ELSE Len(name) + 1

UrlPathAndSearch(name) ==
  LET body == SubSeq(name, 2, HashPos(name) - 1)
  IN  IF body = <<>> THEN << "/" >> ELSE body

(***************************************************************************)
(* The page's resource-timing log and findGameApiUrl.                      *)
(***************************************************************************)
GameEntry == << Origin, "/voyager/api/graphql", "?variables=(", "gameTypeId:6", ")&queryId=seen" >>
GameEntry2 == << Origin, "/voyager/api/graphql", "?variables=(", "gameTypeId:6", ")&queryId=seenLater" >>
OtherEntry == << Origin, "/voyager/api/graphql", "?variables=(", "gameTypeId:5", ")" >>
FragmentEntry == << Origin, "/games/zip/", "#", "/voyager/api/graphql", "gameTypeId:6" >>

PerfNames == {GameEntry, GameEntry2, OtherEntry, FragmentEntry}

SeqsUpTo(S, n) == UNION {[1..k -> S] : k \in 0..n}

PerfLogs ==
  {[throws |-> FALSE, entries |-> e] : e \in SeqsUpTo(PerfNames, MaxPerf)}
    \cup {[throws |-> TRUE, entries |-> <<>>]}

IsGameName(name) == includes(name, PathMarker) /\ includes(name, TypeMarker)

\* A scan that tests the path marker alone.
findGameApiUrlAnyGraphql(p) ==
  IF p.throws THEN Null
  ELSE LET hits == {i \in 1..Len(p.entries) : includes(p.entries[i], PathMarker)}
       IN  IF hits = {} THEN Null
           ELSE UrlPathAndSearch(p.entries[Min(hits)])

findGameApiUrl(p) ==
  IF p.throws THEN Null
  ELSE LET hits == {i \in 1..Len(p.entries) : IsGameName(p.entries[i])}
       IN  IF hits = {} THEN Null
           ELSE LET name == p.entries[Min(hits)]
                IN  IF IsAbsolute(name) THEN UrlPathAndSearch(name) ELSE Null

(***************************************************************************)
(* window.fetch and the interception wrapper of detectApiUrl.              *)
(***************************************************************************)
FreshUrl == << "/voyager/api/graphql", "?variables=(", "gameTypeId:6", ")&queryId=fresh" >>
FreshUrl2 == << "/voyager/api/graphql", "?variables=(", "gameTypeId:6", ")&queryId=fresher" >>
FeedUrl == << "/voyager/api/graphql", "?queryId=feed" >>

\* args[0] of a call: a string, or a Request object for the same URL.
FetchArgs ==
  { [str |-> TRUE, url |-> FreshUrl], [str |-> TRUE, url |-> FreshUrl2],
    [str |-> TRUE, url |-> FeedUrl], [str |-> FALSE, url |-> FreshUrl] }

IsGameCall(arg) ==
  arg.str /\ includes(arg.url, PathMarker) /\ includes(arg.url, TypeMarker)

WrapperCapture(arg, captured) ==
  IF IsGameCall(arg) THEN Append(captured, arg.url) ELSE captured

WrapperForwardSwallow(arg) == IF IsGameCall(arg) THEN <<>> ELSE << arg >>

\* The calls the wrapper makes of originalFetch for one call of itself.
WrapperForward(arg) == << arg >>

\* The wrappers a call of window.fetch passes through.  window.fetch is
\* "native", "wrapper" (the wrapper of the first call of detectApiUrl) or
\* "wrapper2" (the wrapper of a second, overlapping call); a wrapper
\* forwards to the originalFetch of its own closure (line 48).
ViaSecondWrapper == windowFetch = "wrapper2"
ViaFirstWrapper ==
  \/ windowFetch = "wrapper"
  \/ (ViaSecondWrapper /\ second.originalFetch = "wrapper")

\* A call of window.fetch(arg), whoever makes it: through the wrappers
\* (lines 37-49) that are installed, else straight to the native fetch.
\* The caller gets the result of the last call the wrapper forwarded.
CallFetch(arg) ==
  /\ fetchCalls' = Append(fetchCalls, arg)
  /\ capturedUrls' =
       IF ViaFirstWrapper THEN WrapperCapture(arg, capturedUrls) ELSE capturedUrls
  /\ second' =
       IF ViaSecondWrapper
       THEN [second EXCEPT !.capturedUrls = WrapperCapture(arg, @)]
       ELSE second
  /\ IF windowFetch # "native"
     THEN /\ nativeCalls' = nativeCalls \o WrapperForward(arg)
          /\ fetchReturns' = Append(fetchReturns,
                IF WrapperForward(arg) = <<>> THEN 0
                ELSE Len(nativeCalls) + Len(WrapperForward(arg)))
     ELSE /\ nativeCalls' = Append(nativeCalls, arg)
          /\ fetchReturns' = Append(fetchReturns, Len(nativeCalls) + 1)

(***************************************************************************)
(* The controls detectApiUrl looks for.                                    *)
(***************************************************************************)
ButtonLabels == {"Refresh", "Play", "Share"}

\* throws: whether looking the controls up (line 53) or activating one
\* (lines 55, 61) raises in this page.
Controls ==
  [refresh : BOOLEAN, buttons : SeqsUpTo(ButtonLabels, MaxButtons),
   throws : {"never", "lookup", "activate"}]

\* The control lines 53-65 activate: "refresh-button", a button's label, or "none".
ControlToClick(ctl) ==
  IF ctl.refresh THEN "refresh-button"
  ELSE LET hits == {i \in 1..Len(ctl.buttons) : ctl.buttons[i] \in {"Refresh", "Play"}}
       IN  IF hits = {} THEN "none" ELSE ctl.buttons[Min(hits)]

\* run() is explored on pages of fewer shapes than detectApiUrl alone.
RunControls ==
  { [refresh |-> FALSE, buttons |-> <<>>, throws |-> "never"],
    [refresh |-> TRUE, buttons |-> <<>>, throws |-> "never"],
    [refresh |-> TRUE, buttons |-> <<>>, throws |-> "activate"] }

PageControls == IF entry = "run" THEN RunControls ELSE Controls

\* Where a method's exception goes: run() catches it, otherwise the promise rejects.
OnThrow == IF entry = "run" THEN "caught" ELSE "rejected"

Pending == [state |-> "pending", value |-> Null]
Fulfilled(v) == [state |-> "fulfilled", value |-> v]
Rejected == [state |-> "rejected", value |-> Null]

(***************************************************************************)
(* The places getCSRFToken reads, and getCSRFToken (lines 233-260).        *)
(* document.cookie is a sequence of rows 'name=value' joined by '; '.  A   *)
(* value is a string of tokens in which "=" is the character '='; a quoted *)
(* row carries its value between double quotes.                            *)
(***************************************************************************)
Eq == "="
TokenA == << "ajax:1111" >>
TokenWithEq == << "ajax:22", "=", "33" >>
TokenMeta == << "meta:4444" >>
TokenStored == << "stored:5555" >>
TokenManual == << "manual:6666" >>

CookieNames == {"JSESSIONID", "lang"}
CookieValues == {Null, TokenA, TokenWithEq}
CookieRows == [name : CookieNames, quoted : BOOLEAN, value : CookieValues]

\* <meta name="csrf-token">: absent, without content, or with a content.
MetaTags ==
  { [present |-> FALSE, content |-> Null], [present |-> TRUE, content |-> Null],
    [present |-> TRUE, content |-> TokenMeta] }

\* sessionStorage.getItem('JSESSIONID'): null, or a value.
StoredValues == {Null, TokenStored}

Pages ==
  [cookie : SeqsUpTo(CookieRows, MaxCookies), meta : MetaTags, stored : StoredValues]

BarePage ==
  [cookie |-> <<>>, meta |-> [present |-> FALSE, content |-> Null], stored |-> Null]

\* Line 235: the rows /JSESSIONID="([^"]+)"/ matches.
QuotedSessionRows(cookie) ==
  {i \in 1..Len(cookie) :
     cookie[i].name = "JSESSIONID" /\ cookie[i].quoted /\ cookie[i].value # Null}

\* Line 247: the rows that start with 'JSESSIONID='.
SessionRows(cookie) == {i \in 1..Len(cookie) : cookie[i].name = "JSESSIONID"}

\* Line 249: row.split('=')[1], the quotes removed: the value up to its first '='.
EqPos(v) ==
  IF \E i \in 1..Len(v) : v[i] = Eq
  THEN Min({i \in 1..Len(v) : v[i] = Eq})
  ELSE Len(v) + 1

BeforeEq(v) == SubSeq(v, 1, EqPos(v) - 1)

\* The method (1..4) whose return statement getCSRFToken reaches; 0: line 259.
CsrfMethod(pg) ==
  IF QuotedSessionRows(pg.cookie) # {} THEN 1
  ELSE IF pg.meta.present /\ pg.meta.content # Null THEN 2
  ELSE IF SessionRows(pg.cookie) # {} THEN 3
  ELSE IF pg.stored # Null THEN 4
  ELSE 0

getCSRFToken(pg) ==
  IF CsrfMethod(pg) = 1 THEN pg.cookie[Min(QuotedSessionRows(pg.cookie))].value
  ELSE IF CsrfMethod(pg) = 2 THEN pg.meta.content
  ELSE IF CsrfMethod(pg) = 3 THEN BeforeEq(pg.cookie[Min(SessionRows(pg.cookie))].value)
  ELSE IF CsrfMethod(pg) = 4 THEN pg.stored
  ELSE Null

(***************************************************************************)
(* The state after construction (lines 7-13) on a page that has not        *)
(* rendered the board.                                                     *)
(***************************************************************************)
NoPuzzle == [kind |-> "null"]
NoDom == [board |-> FALSE, grid |-> FALSE, cells |-> {}]
NoCoords == [row |-> 0 - 1, col |-> 0 - 1]
NoResponse == [kind |-> "none"]
NoError == [name |-> "none", message |-> <<>>]

\* A call of detectApiUrl that has not been made.
NotStarted ==
  [pc |-> "idle", originalFetch |-> "none", capturedUrls |-> <<>>,
   detectResult |-> Pending, restores |-> 0]

Constructed ==
  /\ apiUrl = ConstructorApiUrl
  /\ puzzle = NoPuzzle
  /\ gridSize = 0
  /\ solution = <<>>

PageUntouched ==
  /\ windowFetch = "native"
  /\ originalFetch = "none"
  /\ capturedUrls = <<>>
  /\ detectResult = Pending
  /\ restores = 0
  /\ uiClicks = <<>>
  /\ fetchCalls = <<>>
  /\ nativeCalls = <<>>
  /\ fetchReturns = <<>>
  /\ dom = NoDom
  /\ elapsed = 0
  /\ boardReady = "none"
  /\ stepIdx = 0
  /\ events = <<>>
  /\ keyResults = <<>>
  /\ console = {}
  /\ manualCSRFToken = Null
  /\ requests = <<>>
  /\ response = NoResponse
  /\ fetchError = NoError
  /\ second = NotStarted

DirectionUnused ==
  /\ dirFrom = 0
  /\ dirTo = 0
  /\ dirResult = "none"
  /\ dirCoords = [from |-> NoCoords, to |-> NoCoords]

(***************************************************************************)
(* detectApiUrl, lines 18-83.                                              *)
(***************************************************************************)
botVars == <<apiUrl, puzzle, gridSize, solution>>
solveVars == <<dom, elapsed, boardReady, stepIdx, events, keyResults>>
dirVars == <<dirFrom, dirTo, dirResult, dirCoords>>
tokenVars == <<page, manualCSRFToken>>
requestVars == <<requests, response, fetchError>>
fetchVars == <<fetchCalls, nativeCalls, fetchReturns>>

\* Lines 18-66: the passive scan, and when it finds nothing the wrapper's
\* installation, the control's activation and the start of the 3 s timer.
DetectApiUrl ==
  /\ pc = "detect"
  /\ LET existingUrl == findGameApiUrl(perf)
     IN  IF existingUrl # Null
         THEN /\ apiUrl' = existingUrl
              /\ detectResult' = Fulfilled(existingUrl)
              /\ pc' = "detected"
              /\ UNCHANGED <<windowFetch, originalFetch, capturedUrls, uiClicks>>
         ELSE \E ctl \in PageControls :
              LET target == ControlToClick(ctl)
                  clicked == ctl.throws # "lookup" /\ target # "none"
                  thrown == ctl.throws = "lookup" \/ (clicked /\ ctl.throws = "activate")
              IN  /\ originalFetch' = windowFetch
                  /\ windowFetch' = "wrapper"
                  /\ capturedUrls' = <<>>
                  /\ uiClicks' = IF clicked THEN Append(uiClicks, target) ELSE uiClicks
                  /\ detectResult' = IF thrown THEN Rejected ELSE Pending
                  /\ pc' = IF thrown THEN OnThrow ELSE "observing"
                  /\ apiUrl' = apiUrl
  /\ UNCHANGED <<entry, puzzle, gridSize, solution, perf, restores, fetchVars,
                 solveVars, console, dirVars, tokenVars, requestVars, second>>

\* Lines 68-81: the timer's callback.
ObservationTimeout ==
  /\ pc = "observing"
  /\ windowFetch' = originalFetch
  /\ restores' = restores + 1
  /\ IF Len(capturedUrls) > 0
     THEN /\ detectResult' = Fulfilled(capturedUrls[1])
          /\ console' = console
     ELSE /\ detectResult' = Fulfilled(FallbackUrl)
          /\ console' = console \cup {"NoApiUrlCaptured"}
  /\ pc' = "detected"
  /\ UNCHANGED <<entry, botVars, perf, originalFetch, capturedUrls, uiClicks,
                 fetchVars, solveVars, dirVars, tokenVars, requestVars, second>>

\* The page calls window.fetch.
\* Under run() the page's calls are explored up to the end of discovery.
FetchBudget ==
  IF entry \in {"detectApiUrl", "detectApiUrlTwice"} THEN MaxPageFetch
  ELSE IF entry = "run" /\ pc \in {"runStart", "launchSleep", "detect", "observing"}
       THEN MaxRunPageFetch
       ELSE 0

RunFetchArgs == { [str |-> TRUE, url |-> FreshUrl] }
PageFetchArgs == IF entry = "run" THEN RunFetchArgs ELSE FetchArgs

PageFetch ==
  /\ Len(fetchCalls) < FetchBudget
  /\ \E arg \in PageFetchArgs : CallFetch(arg)
  /\ UNCHANGED <<entry, pc, botVars, perf, windowFetch, originalFetch,
                 detectResult, restores, uiClicks, solveVars, console, dirVars,
                 tokenVars, requestVars>>

InitDetect ==
  /\ entry = "detectApiUrl"
  /\ pc = "detect"
  /\ perf \in PerfLogs
  /\ page = BarePage
  /\ Constructed
  /\ PageUntouched
  /\ DirectionUnused

NextDetect == DetectApiUrl \/ ObservationTimeout \/ PageFetch

SpecDetect == InitDetect /\ [][NextDetect]_vars

(***************************************************************************)
(* detectApiUrl called again (for example by a second run() of window.bot, *)
(* lines 533-534) while the observation window of the first call is open.  *)
(* The second call has a closure of its own (lines 34-35).                 *)
(***************************************************************************)
\* Lines 18-66 of the second call.
DetectApiUrlAgain ==
  /\ entry = "detectApiUrlTwice"
  /\ pc = "observing"
  /\ second.pc = "idle"
  /\ LET existingUrl == findGameApiUrl(perf)
     IN  IF existingUrl # Null
         THEN /\ apiUrl' = existingUrl
              /\ second' = [second EXCEPT !.pc = "detected",
                                          !.detectResult = Fulfilled(existingUrl)]
              /\ UNCHANGED <<windowFetch, uiClicks>>
         ELSE \E ctl \in PageControls :
              LET target == ControlToClick(ctl)
                  clicked == ctl.throws # "lookup" /\ target # "none"
                  thrown == ctl.throws = "lookup" \/ (clicked /\ ctl.throws = "activate")
              IN  /\ second' = [pc |-> IF thrown THEN "rejected" ELSE "observing",
                                originalFetch |-> windowFetch,
                                capturedUrls |-> <<>>,
                                detectResult |-> IF thrown THEN Rejected ELSE Pending,
                                restores |-> 0]
                  /\ windowFetch' = "wrapper2"
                  /\ uiClicks' = IF clicked THEN Append(uiClicks, target) ELSE uiClicks
                  /\ apiUrl' = apiUrl
  /\ UNCHANGED <<entry, pc, puzzle, gridSize, solution, perf, originalFetch,
                 capturedUrls, detectResult, restores, fetchVars, solveVars, console,
                 dirVars, tokenVars, requestVars>>

\* Lines 68-81 of the second call.  Its timer was set after the first
\* call's, with the same delay, so it fires after it.
ObservationTimeoutAgain ==
  /\ second.pc = "observing"
  /\ pc # "observing"
  /\ windowFetch' = second.originalFetch
  /\ IF Len(second.capturedUrls) > 0
     THEN /\ second' = [second EXCEPT !.pc = "detected",
                                      !.detectResult = Fulfilled(second.capturedUrls[1]),
                                      !.restores = @ + 1]
          /\ console' = console
     ELSE /\ second' = [second EXCEPT !.pc = "detected",
                                      !.detectResult = Fulfilled(FallbackUrl),
                                      !.restores = @ + 1]
          /\ console' = console \cup {"NoApiUrlCaptured"}
  /\ UNCHANGED <<entry, pc, botVars, perf, originalFetch, capturedUrls, detectResult,
                 restores, uiClicks, fetchVars, solveVars, dirVars, tokenVars,
                 requestVars>>

InitOverlap ==
  /\ entry = "detectApiUrlTwice"
  /\ pc = "detect"
  /\ perf \in PerfLogs
  /\ page = BarePage
  /\ Constructed
  /\ PageUntouched
  /\ DirectionUnused

NextOverlap ==
  \/ DetectApiUrl \/ DetectApiUrlAgain
  \/ ObservationTimeout \/ ObservationTimeoutAgain
  \/ PageFetch

SpecOverlap == InitOverlap /\ [][NextOverlap]_vars

(***************************************************************************)
(* Properties of detectApiUrl (specification SpecDetect).                  *)
(***************************************************************************)
DiscoveryConcluded == detectResult.state # "pending"
WrapperWasInstalled == originalFetch # "none"

\* C1: in every terminal state of discovery (a URL captured, nothing
\* captured, or an exception after the override was installed) the wrapper
\* is no longer installed, and an installed override was restored exactly once.
C1_RestoredOnEveryExit ==
  DiscoveryConcluded =>
    /\ windowFetch # "wrapper"
    /\ WrapperWasInstalled => restores = 1

GameEntryIndexes == {i \in 1..Len(perf.entries) : IsGameName(perf.entries[i])}
PerfHasGameEntry == ~perf.throws /\ GameEntryIndexes # {}
GameEntryPath == << "/voyager/api/graphql", "?variables=(", "gameTypeId:6", ")&queryId=seen" >>

\* C2: when the resource-timing log holds an entry with both markers,
\* detectApiUrl returns the path+query of the first such entry, and
\* window.fetch is never overridden, no control is activated and no
\* observation window is started.
C2_PassiveFastPath ==
  PerfHasGameEntry =>
    /\ windowFetch = "native" /\ originalFetch = "none" /\ restores = 0
    /\ uiClicks = <<>>
    /\ pc \in {"detect", "detected"}
    /\ pc = "detected" =>
         /\ detectResult.state = "fulfilled"
         /\ detectResult.value = UrlPathAndSearch(perf.entries[Min(GameEntryIndexes)])
         /\ ~includes(detectResult.value, Origin) /\ ~includes(detectResult.value, Hash)
         /\ perf.entries[Min(GameEntryIndexes)] = GameEntry => detectResult.value = GameEntryPath

C2_Witness ==
  /\ pc = "detected"
  /\ perf.entries = << OtherEntry, GameEntry >>
  /\ detectResult = Fulfilled(GameEntryPath)
  /\ Len(fetchCalls) = MaxPageFetch

\* C3: with no passive match and nothing captured in the observation
\* window, detectApiUrl returns the constructor's default URL and
\* window.fetch is again the primitive that was installed before discovery.
C3_FallbackIsDefault ==
  (pc = "detected" /\ WrapperWasInstalled /\ capturedUrls = <<>>) =>
    /\ detectResult = Fulfilled(ConstructorApiUrl)
    /\ windowFetch = originalFetch
    /\ windowFetch = "native"

C3_Witness ==
  /\ pc = "detected" /\ WrapperWasInstalled /\ capturedUrls = <<>>
  /\ detectResult = Fulfilled(ConstructorApiUrl)
  /\ \E i \in 1..Len(fetchCalls) : IsGameCall(fetchCalls[i])
  /\ "NoApiUrlCaptured" \in console

\* C4: detectApiUrl never raises: its promise is never rejected, and when
\* it settles it holds a discovered URL or the hardcoded default.
C4_NeverRaises ==
  /\ detectResult.state # "rejected"
  /\ detectResult.state = "fulfilled" => detectResult.value # Null

\* C5: every call of window.fetch, matching or not, wrapper installed or
\* not, reaches the native fetch exactly once with the same argument and
\* the caller gets that call's result; the call changes nothing else but
\* the capture list, which gains the URL iff the wrapper is installed and
\* the argument is a string holding both markers.
C5_WrapperTransparent ==
  [][fetchCalls' # fetchCalls =>
       LET arg == fetchCalls'[Len(fetchCalls')]
       IN  /\ fetchCalls' = Append(fetchCalls, arg)
           /\ nativeCalls' = Append(nativeCalls, arg)
           /\ fetchReturns' = Append(fetchReturns, Len(nativeCalls'))
           /\ capturedUrls' =
                 IF windowFetch = "wrapper" /\ arg.str /\ IsGameName(arg.url)
                 THEN Append(capturedUrls, arg.url) ELSE capturedUrls
           /\ UNCHANGED <<windowFetch, originalFetch, detectResult, restores, pc, apiUrl>>
    ]_vars

C5_Witness ==
  /\ windowFetch = "wrapper" /\ pc = "observing"
  /\ fetchCalls = << [str |-> TRUE, url |-> FeedUrl], [str |-> TRUE, url |-> FreshUrl] >>
  /\ nativeCalls = fetchCalls
  /\ capturedUrls = << FreshUrl >>

\* The string URLs with both markers among the calls of window.fetch.
MatchingCalls == {i \in 1..Len(fetchCalls) : IsGameCall(fetchCalls[i])}

\* C20: the URL detectApiUrl returns, on the passive, the active or the
\* fallback path, holds both markers; on the active path it is the first
\* matching URL the page requested through the wrapper, so it is the URL
\* of one of the page's calls of window.fetch.
C20_ReferenceHasBothMarkers ==
  detectResult.state = "fulfilled" =>
    /\ includes(detectResult.value, PathMarker)
    /\ includes(detectResult.value, TypeMarker)
    /\ (WrapperWasInstalled /\ capturedUrls # <<>>) =>
         /\ detectResult.value = capturedUrls[1]
         /\ \E i \in MatchingCalls : fetchCalls[i].url = detectResult.value

(***************************************************************************)
(* Properties of overlapping calls of detectApiUrl (SpecOverlap).          *)
(***************************************************************************)
\* C19: when a second call of detectApiUrl was started while the
\* observation window of the first was open, then once both calls have
\* concluded window.fetch is the native primitive again.
C19_NoWrapperLeftInstalled ==
  (DiscoveryConcluded /\ second.pc # "idle" /\ second.detectResult.state # "pending") =>
    windowFetch = "native"

(***************************************************************************)
(* indexToCoords (lines 265-270) and getDirection (lines 340-353).         *)
(***************************************************************************)
\* Coordinates with the row and the column exchanged.
indexToCoordsColumnMajor(index, n) == [row |-> index % n, col |-> index \div n]

indexToCoords(index, n) == [row |-> index \div n, col |-> index % n]

\* A direction computed from the difference of the two identifiers.
getDirectionByIndexDiff(fromCell, toCell, n) ==
  IF toCell - fromCell = 0 - n THEN "ArrowUp"
  ELSE IF toCell - fromCell = n THEN "ArrowDown"
  ELSE IF toCell - fromCell = 0 - 1 THEN "ArrowLeft"
  ELSE IF toCell - fromCell = 1 THEN "ArrowRight"
  ELSE "null"

\* A direction whose horizontal cases do not test the row.
getDirectionColOnly(fromCell, toCell, n) ==
  LET rowDiff == indexToCoords(toCell, n).row - indexToCoords(fromCell, n).row
      colDiff == indexToCoords(toCell, n).col - indexToCoords(fromCell, n).col
  IN  IF rowDiff = 0 - 1 /\ colDiff = 0 THEN "ArrowUp"
      ELSE IF rowDiff = 1 /\ colDiff = 0 THEN "ArrowDown"
      ELSE IF colDiff = 0 - 1 THEN "ArrowLeft"
      ELSE IF colDiff = 1 THEN "ArrowRight"
      ELSE "null"

getDirection(fromCell, toCell, n) ==
  LET fromCoords == indexToCoords(fromCell, n)
      toCoords == indexToCoords(toCell, n)
      rowDiff == toCoords.row - fromCoords.row
      colDiff == toCoords.col - fromCoords.col
  IN  IF rowDiff = 0 - 1 /\ colDiff = 0 THEN "ArrowUp"
      ELSE IF rowDiff = 1 /\ colDiff = 0 THEN "ArrowDown"
      ELSE IF rowDiff = 0 /\ colDiff = 0 - 1 THEN "ArrowLeft"
      ELSE IF rowDiff = 0 /\ colDiff = 1 THEN "ArrowRight"
      ELSE "null"

\* getDirection called on its own, for every grid size and pair of cells.
GetDirection ==
  /\ pc = "direction"
  /\ dirResult' = getDirection(dirFrom, dirTo, gridSize)
  /\ dirCoords' = [from |-> indexToCoords(dirFrom, gridSize),
                   to |-> indexToCoords(dirTo, gridSize)]
  /\ pc' = "directionDone"
  /\ UNCHANGED <<entry, botVars, perf, windowFetch, originalFetch, capturedUrls,
                 detectResult, restores, uiClicks, fetchVars, solveVars, console,
                 dirFrom, dirTo, tokenVars, requestVars, second>>

InitDirection ==
  /\ entry = "getDirection"
  /\ pc = "direction"
  /\ perf = [throws |-> FALSE, entries |-> <<>>]
  /\ apiUrl = ConstructorApiUrl
  /\ puzzle = NoPuzzle
  /\ solution = <<>>
  /\ gridSize \in 1..MaxGrid
  /\ PageUntouched
  /\ dirFrom \in 0..(MaxGrid * MaxGrid - 1)
  /\ dirTo \in 0..(MaxGrid * MaxGrid - 1)
  /\ dirFrom < gridSize * gridSize
  /\ dirTo < gridSize * gridSize
  /\ dirResult = "none"
  /\ dirCoords = [from |-> NoCoords, to |-> NoCoords]
  /\ page = BarePage

NextDirection == GetDirection

SpecDirection == InitDirection /\ [][NextDirection]_vars

(***************************************************************************)
(* The board's DOM, as the selectors of the bot see it: '.trail-board'     *)
(* (board), '[data-trail-grid]' (grid), '[data-cell-idx="k"]' (cells).     *)
(***************************************************************************)
PollInterval == 200
BoardTimeout == 10000

PageCells == 0..8
CellSets == {{}, {0}, PageCells \ {0}, PageCells}
DomStates == [board : BOOLEAN, grid : BOOLEAN, cells : CellSets]

\* The page changes the board while the bot is suspended in solvePuzzle.
PageMutate ==
  /\ pc \in {"solve", "polling", "waited", "focusSleep", "stepping", "settle"}
  /\ \E d \in DomStates :
       /\ d # dom
       /\ \/ (d.grid = dom.grid /\ d.cells = dom.cells)
          \/ (d.board = dom.board /\ d.cells = dom.cells)
          \/ (d.board = dom.board /\ d.grid = dom.grid)
       /\ dom' = d
  /\ UNCHANGED <<entry, pc, botVars, perf, windowFetch, originalFetch, capturedUrls,
                 detectResult, restores, uiClicks, fetchVars, elapsed, boardReady,
                 stepIdx, events, keyResults, console, dirVars, tokenVars, requestVars, second>>

(***************************************************************************)
(* waitForGameBoard (lines 88-119), simulateKeyPress (lines 358-381) and   *)
(* solvePuzzle (lines 386-454).                                            *)
(***************************************************************************)
BoardIsReady(d) == d.board /\ d.cells # {}

KeyCode(key) ==
  IF key = "ArrowUp" THEN 38
  ELSE IF key = "ArrowDown" THEN 40
  ELSE IF key = "ArrowLeft" THEN 37
  ELSE 39

KeyEvent(type, key) ==
  [type |-> type, target |-> "[data-trail-grid]", key |-> key, keyCode |-> KeyCode(key)]

\* A key press that dispatches the key-down alone.
simulateKeyPressDownOnly(d, key) ==
  IF ~d.grid THEN <<>> ELSE << KeyEvent("keydown", key) >>

\* The events simulateKeyPress(key) dispatches; none when it returns false.
simulateKeyPress(d, key) ==
  IF ~d.grid THEN <<>>
  ELSE << KeyEvent("keydown", key), KeyEvent("keyup", key) >>

FocusEvent == [type |-> "focus", target |-> ".trail-board", key |-> "", keyCode |-> 0]
ClickEvent(cell) == [type |-> "click", target |-> "[data-cell-idx]", key |-> "", keyCode |-> cell]

\* Lines 386-396 and 88-114: the guard on the solution, then
\* waitForGameBoard up to its first sleep.
SolvePuzzle ==
  /\ pc = "solve"
  /\ IF Len(solution) = 0
     THEN /\ console' = console \cup {"NoSolutionLoaded"}
          /\ pc' = "solved"
          /\ UNCHANGED <<elapsed, boardReady>>
     ELSE IF BoardIsReady(dom)
     THEN /\ boardReady' = "true"
          /\ pc' = "waited"
          /\ UNCHANGED <<elapsed, console>>
     ELSE /\ elapsed' = 0
          /\ pc' = "polling"
          /\ UNCHANGED <<boardReady, console>>
  /\ UNCHANGED <<entry, botVars, perf, windowFetch, originalFetch, capturedUrls,
                 detectResult, restores, uiClicks, fetchVars, dom, stepIdx, events,
                 keyResults, dirVars, tokenVars, requestVars, second>>

\* A poll whose clock stands still.
PollWakeClockStopped ==
  /\ pc = "polling"
  /\ IF elapsed < BoardTimeout
     THEN IF BoardIsReady(dom)
          THEN /\ boardReady' = "true"
               /\ pc' = "waited"
               /\ elapsed' = 0
               /\ console' = console
          ELSE UNCHANGED <<elapsed, boardReady, pc, console>>
     ELSE /\ boardReady' = "false"
          /\ console' = console \cup {"BoardTimeout"}
          /\ pc' = "waited"
          /\ elapsed' = 0
  /\ UNCHANGED <<entry, botVars, perf, windowFetch, originalFetch, capturedUrls,
                 detectResult, restores, uiClicks, fetchVars, dom, stepIdx, events,
                 keyResults, dirVars, tokenVars, requestVars, second>>

\* Lines 104-118: sleep(200) is over; the loop's condition and its check.
\* A timer fires after its delay or later: the sleep took 200 ms, or the
\* page was throttled and it took the whole timeout longer.
\* elapsed is a local of waitForGameBoard: it is gone (0) once it returns.
PollWake ==
  /\ pc = "polling"
  /\ \E late \in {0, BoardTimeout} :
     LET now == elapsed + PollInterval + late
     IN  IF now < BoardTimeout
         THEN IF BoardIsReady(dom)
              THEN /\ boardReady' = "true"
                   /\ pc' = "waited"
                   /\ elapsed' = 0
                   /\ console' = console
              ELSE /\ elapsed' = now
                   /\ UNCHANGED <<boardReady, pc, console>>
         ELSE /\ boardReady' = "false"
              /\ console' = console \cup {"BoardTimeout"}
              /\ pc' = "waited"
              /\ elapsed' = 0
  /\ UNCHANGED <<entry, botVars, perf, windowFetch, originalFetch, capturedUrls,
                 detectResult, restores, uiClicks, fetchVars, dom, stepIdx, events,
                 keyResults, dirVars, tokenVars, requestVars, second>>

\* Lines 396-406: waitForGameBoard's result is dropped; the board is
\* looked up again and focused.
SolveAfterWait ==
  /\ pc = "waited"
  /\ IF ~dom.board
     THEN /\ console' = console \cup {"BoardNotFound"}
          /\ pc' = "solved"
          /\ events' = events
     ELSE /\ events' = Append(events, FocusEvent)
          /\ pc' = "focusSleep"
          /\ console' = console
  /\ UNCHANGED <<entry, botVars, perf, windowFetch, originalFetch, capturedUrls,
                 detectResult, restores, uiClicks, fetchVars, dom, elapsed,
                 boardReady, stepIdx, keyResults, dirVars, tokenVars, requestVars, second>>

\* A driver that activates the start cell without testing that it was found.
FocusWakeUnchecked ==
  /\ pc = "focusSleep"
  /\ events' = Append(events, ClickEvent(solution[1]))
  /\ stepIdx' = 1
  /\ pc' = "stepping"
  /\ console' = console
  /\ UNCHANGED <<entry, botVars, perf, windowFetch, originalFetch, capturedUrls,
                 detectResult, restores, uiClicks, fetchVars, dom, elapsed,
                 boardReady, keyResults, dirVars, tokenVars, requestVars, second>>

\* Lines 408-419: the start cell.
FocusWake ==
  /\ pc = "focusSleep"
  /\ IF solution[1] \notin dom.cells
     THEN /\ console' = console \cup {"StartCellNotFound"}
          /\ pc' = "solved"
          /\ UNCHANGED <<events, stepIdx>>
     ELSE /\ events' = Append(events, ClickEvent(solution[1]))
          /\ stepIdx' = 1
          /\ pc' = "stepping"
          /\ console' = console
  /\ UNCHANGED <<entry, botVars, perf, windowFetch, originalFetch, capturedUrls,
                 detectResult, restores, uiClicks, fetchVars, dom, elapsed,
                 boardReady, keyResults, dirVars, tokenVars, requestVars, second>>

\* Lines 422-447: one iteration of the loop, or its end.  solution is
\* 1-based here: iteration i replays the pair (solution[i], solution[i+1]).
StepWake ==
  /\ pc = "stepping"
  /\ IF stepIdx < Len(solution)
     THEN LET direction == getDirection(solution[stepIdx], solution[stepIdx + 1], gridSize)
          IN  IF direction = "null"
              THEN /\ console' = console \cup {"InvalidMove", "SequenceCompleted"}
                   /\ pc' = "settle"
                   /\ UNCHANGED <<events, keyResults, stepIdx>>
              ELSE /\ events' = events \o simulateKeyPress(dom, direction)
                   /\ keyResults' = Append(keyResults, dom.grid)
                   /\ stepIdx' = stepIdx + 1
                   /\ UNCHANGED <<pc, console>>
     ELSE /\ console' = console \cup {"SequenceCompleted"}
          /\ pc' = "settle"
          /\ UNCHANGED <<events, keyResults, stepIdx>>
  /\ UNCHANGED <<entry, botVars, perf, windowFetch, originalFetch, capturedUrls,
                 detectResult, restores, uiClicks, fetchVars, dom, elapsed,
                 boardReady, dirVars, tokenVars, requestVars, second>>

\* Lines 447-454: the advisory check of the "won" marker.
SettleWake ==
  /\ pc = "settle"
  /\ \E hasWon \in BOOLEAN :
       console' = IF hasWon THEN console \cup {"Victory"} ELSE console
  /\ pc' = "solved"
  /\ UNCHANGED <<entry, botVars, perf, windowFetch, originalFetch, capturedUrls,
                 detectResult, restores, uiClicks, fetchVars, solveVars, dirVars, tokenVars, requestVars, second>>

\* The puzzles solvePuzzle is called with: every solution of up to MaxLen
\* cells on the 1x1 and 2x2 grids, and the spec's examples.
SolveGrids == {1, 2}
ExamplePuzzles ==
  { [gridSize |-> 3, solution |-> << 0, 1, 4, 7, 8 >>],
    [gridSize |-> 3, solution |-> << 0, 2 >>],
    [gridSize |-> 5, solution |-> << 0, 1, 2, 7, 12 >>] }
SolvePuzzles ==
  {[gridSize |-> n, solution |-> s] : n \in SolveGrids, s \in SeqsUpTo(0..3, MaxLen)}

\* The object at included[0].gamePuzzle.trailGamePuzzle, with the fields
\* the response of that shape carries.
PuzzleObject(shape, p) ==
  [kind |-> "object", hasGridSize |-> shape # "noGridSize",
   hasSolution |-> shape # "noSolution", hasOrdered |-> shape # "noOrdered",
   gridSize |-> p.gridSize, solution |-> p.solution]

LoadedPuzzle(p) == PuzzleObject("full", p)

InitSolve ==
  /\ entry = "solvePuzzle"
  /\ pc = "solve"
  /\ perf = [throws |-> FALSE, entries |-> <<>>]
  /\ apiUrl = ConstructorApiUrl
  /\ \E p \in SolvePuzzles \cup ExamplePuzzles :
       /\ \A i \in 1..Len(p.solution) : p.solution[i] < p.gridSize * p.gridSize
       /\ puzzle = LoadedPuzzle(p)
       /\ gridSize = p.gridSize
       /\ solution = p.solution
  /\ page = BarePage
  /\ PageUntouched
  /\ DirectionUnused

NextSolve ==
  \/ SolvePuzzle \/ PollWake \/ SolveAfterWait \/ FocusWake \/ StepWake
  \/ SettleWake \/ PageMutate

SpecSolve == InitSolve /\ [][NextSolve]_vars

(***************************************************************************)
(* fetchPuzzle (lines 187-228), visualizeSolution (lines 455-486) and      *)
(* run (lines 491-528).                                                    *)
(***************************************************************************)
Undefined == -1       \* this.gridSize when the response has no gridSize

ResponseShapes ==
  {"noIncluded", "emptyIncluded", "noContainer", "noGame", "noGridSize",
   "noSolution", "noOrdered", "full"}

RunPuzzles ==
  { [gridSize |-> 2, solution |-> <<>>],
    [gridSize |-> 2, solution |-> << 0, 1 >>],
    [gridSize |-> 2, solution |-> << 0, 3 >>],
    [gridSize |-> 2, solution |-> << 1, 0, 2 >>] }

\* response.ok, response.status, the text of the body, and for a body that
\* parses the shape of the envelope and the puzzle it carries.
ErrorStatuses == {"403", "500"}
ErrorBodies == {Null, << "CSRF check failed" >>}

Responses ==
  {[kind |-> "http", ok |-> FALSE, status |-> st, body |-> b, shape |-> "full",
    puzzle |-> [gridSize |-> 2, solution |-> <<>>]] :
      st \in ErrorStatuses, b \in ErrorBodies}
    \cup {[kind |-> "http", ok |-> TRUE, status |-> "200", body |-> Null, shape |-> sh,
           puzzle |-> p] : sh \in ResponseShapes, p \in RunPuzzles}

\* Line 207: the message of the error thrown for a non-success status.
HttpErrorMessageStatusOnly(status, body) == << "HTTP ", status >>

HttpErrorMessage(status, body) == << "HTTP ", status, ": " >> \o body

HttpError(r) == [name |-> "Error", message |-> HttpErrorMessage(r.status, r.body)]

\* The error of reading a property of undefined (lines 213-220).
TypeError == [name |-> "TypeError", message |-> << "Cannot read properties of undefined" >>]

\* The page calls bot.setCSRFToken(token) before fetchPuzzle (lines 179-182).
SetCSRFToken ==
  /\ entry = "fetchPuzzle"
  /\ pc = "fetch"
  /\ manualCSRFToken = Null
  /\ manualCSRFToken' = TokenManual
  /\ console' = console \cup {"CsrfTokenSetManually"}
  /\ UNCHANGED <<entry, pc, botVars, perf, windowFetch, originalFetch, capturedUrls,
                 detectResult, restores, uiClicks, fetchVars, solveVars, dirVars,
                 page, requestVars, second>>

\* Lines 491-505: the launch button.
RunStart ==
  /\ pc = "runStart"
  /\ \E launch \in {"absent", "present", "throws"} :
       /\ uiClicks' = IF launch = "absent" THEN uiClicks ELSE Append(uiClicks, "launch")
       /\ pc' = IF launch = "absent" THEN "detect"
                ELSE IF launch = "present" THEN "launchSleep"
                ELSE "uncaught"
  /\ UNCHANGED <<entry, botVars, perf, windowFetch, originalFetch, capturedUrls,
                 detectResult, restores, fetchVars, solveVars, console, dirVars, tokenVars, requestVars, second>>

\* Line 502 is over: run enters the try block and calls detectApiUrl.
RunAfterLaunch ==
  /\ pc = "launchSleep"
  /\ pc' = "detect"
  /\ UNCHANGED <<entry, botVars, perf, windowFetch, originalFetch, capturedUrls,
                 detectResult, restores, uiClicks, fetchVars, solveVars, console,
                 dirVars, tokenVars, requestVars, second>>

\* A run that keeps the constructor's URL whatever discovery returned.
RunAfterDetectKeepsUrl ==
  /\ entry = "run"
  /\ pc = "detected"
  /\ apiUrl' = apiUrl
  /\ pc' = "fetch"
  /\ UNCHANGED <<entry, puzzle, gridSize, solution, perf, windowFetch, originalFetch,
                 capturedUrls, detectResult, restores, uiClicks, fetchVars, solveVars,
                 console, dirVars, tokenVars, requestVars, second>>

\* Lines 510-515: the awaited URL is stored and fetchPuzzle is called.
RunAfterDetect ==
  /\ entry = "run"
  /\ pc = "detected"
  /\ apiUrl' = detectResult.value
  /\ pc' = "fetch"
  /\ UNCHANGED <<entry, puzzle, gridSize, solution, perf, windowFetch, originalFetch,
                 capturedUrls, detectResult, restores, uiClicks, fetchVars, solveVars,
                 console, dirVars, tokenVars, requestVars, second>>

\* Lines 187-202: the request.
FetchPuzzle ==
  /\ pc = "fetch"
  /\ CallFetch([str |-> TRUE, url |-> apiUrl])
  /\ requests' = Append(requests, [url |-> apiUrl, csrfToken |-> getCSRFToken(page)])
  /\ console' = IF CsrfMethod(page) = 0 THEN console \cup {"CsrfTokenNotFound"}
                ELSE console
  /\ pc' = "awaitResponse"
  /\ UNCHANGED <<entry, botVars, perf, windowFetch, originalFetch, detectResult,
                 restores, uiClicks, solveVars, dirVars, tokenVars, response,
                 fetchError>>

\* Lines 204-227: the response arrives and is read.
HttpResponse ==
  /\ pc = "awaitResponse"
  /\ \E r \in Responses :
       /\ response' = r
       /\ IF ~r.ok
          THEN /\ console' = console \cup {"HttpError", "FetchFailed"}
               /\ fetchError' = HttpError(r)
               /\ pc' = OnThrow
               /\ UNCHANGED <<puzzle, gridSize, solution>>
          ELSE IF r.shape \in {"noIncluded", "emptyIncluded", "noContainer"}
          THEN /\ console' = console \cup {"FetchFailed"}
               /\ fetchError' = TypeError
               /\ pc' = OnThrow
               /\ UNCHANGED <<puzzle, gridSize, solution>>
          ELSE IF r.shape = "noGame"
          THEN /\ puzzle' = [kind |-> "undefined"]
               /\ console' = console \cup {"FetchFailed"}
               /\ fetchError' = TypeError
               /\ pc' = OnThrow
               /\ UNCHANGED <<gridSize, solution>>
          ELSE /\ puzzle' = PuzzleObject(r.shape, r.puzzle)
               /\ gridSize' = IF r.shape = "noGridSize" THEN Undefined ELSE r.puzzle.gridSize
               /\ solution' = IF r.shape = "noSolution" THEN <<>> ELSE r.puzzle.solution
               /\ IF r.shape = "noSolution"
                  THEN /\ console' = console \cup {"PuzzleFetched", "FetchFailed"}
                       /\ fetchError' = TypeError
                       /\ pc' = OnThrow
                  ELSE /\ console' = console \cup {"PuzzleFetched"}
                       /\ fetchError' = fetchError
                       /\ pc' = "fetched"
  /\ UNCHANGED <<entry, apiUrl, perf, windowFetch, originalFetch, capturedUrls,
                 detectResult, restores, uiClicks, fetchVars, solveVars, dirVars,
                 tokenVars, requests, second>>

\* fetchPuzzle called on its own, on every page of up to MaxCookies cookies.
InitFetch ==
  /\ entry = "fetchPuzzle"
  /\ pc = "fetch"
  /\ perf = [throws |-> FALSE, entries |-> <<>>]
  /\ page \in Pages
  /\ Constructed
  /\ PageUntouched
  /\ DirectionUnused

NextFetch == SetCSRFToken \/ FetchPuzzle \/ HttpResponse

SpecFetch == InitFetch /\ [][NextFetch]_vars

\* visualizeSolution raises when a cell is written into a grid built
\* without a gridSize, or when the puzzle has no orderedSequence.
VisualizeThrows ==
  \/ (gridSize = Undefined /\ Len(solution) > 0)
  \/ ~puzzle.hasOrdered

\* Lines 517-522: visualizeSolution, then solvePuzzle is called.
RunAfterFetch ==
  /\ entry = "run"
  /\ pc = "fetched"
  /\ pc' = IF VisualizeThrows THEN "caught" ELSE "solve"
  /\ UNCHANGED <<entry, botVars, perf, windowFetch, originalFetch, capturedUrls,
                 detectResult, restores, uiClicks, fetchVars, solveVars, console,
                 dirVars, tokenVars, requestVars, second>>

\* Line 524: solvePuzzle returned.
RunAfterSolve ==
  /\ entry = "run"
  /\ pc = "solved"
  /\ console' = console \cup {"BotCompleted"}
  /\ pc' = "success"
  /\ UNCHANGED <<entry, botVars, perf, windowFetch, originalFetch, capturedUrls,
                 detectResult, restores, uiClicks, fetchVars, solveVars, dirVars, tokenVars, requestVars, second>>

\* Lines 525-527.
RunCatch ==
  /\ pc = "caught"
  /\ console' = console \cup {"BotFailed"}
  /\ pc' = "failed"
  /\ UNCHANGED <<entry, botVars, perf, windowFetch, originalFetch, capturedUrls,
                 detectResult, restores, uiClicks, fetchVars, solveVars, dirVars, tokenVars, requestVars, second>>

RunPages ==
  { BarePage,
    [cookie |-> << [name |-> "JSESSIONID", quoted |-> TRUE, value |-> TokenA] >>,
     meta |-> [present |-> FALSE, content |-> Null], stored |-> Null] }

RunPerfLogs ==
  { [throws |-> FALSE, entries |-> <<>>], [throws |-> FALSE, entries |-> << GameEntry >>] }

InitRun ==
  /\ entry = "run"
  /\ pc = "runStart"
  /\ perf \in RunPerfLogs
  /\ page \in RunPages
  /\ Constructed
  /\ PageUntouched
  /\ DirectionUnused

NextRun ==
  \/ RunStart \/ RunAfterLaunch
  \/ DetectApiUrl \/ ObservationTimeout \/ PageFetch \/ RunAfterDetect
  \/ FetchPuzzle \/ HttpResponse \/ RunAfterFetch
  \/ SolvePuzzle \/ PollWake \/ SolveAfterWait \/ FocusWake \/ StepWake
  \/ SettleWake \/ PageMutate
  \/ RunAfterSolve \/ RunCatch

SpecRun == InitRun /\ [][NextRun]_vars

\* The steps of the bot: continuations of run() and of the methods it
\* awaits.  Each waits for a timer (lines 68, 114, 406, 419, 440, 447, 502)
\* or for the response of the one request (lines 193, 205, 210); a timer
\* that was set fires and the round trip completes, whatever the page does
\* in between.
BotStep ==
  \/ RunStart \/ RunAfterLaunch
  \/ DetectApiUrl \/ ObservationTimeout \/ RunAfterDetect
  \/ FetchPuzzle \/ HttpResponse \/ RunAfterFetch
  \/ SolvePuzzle \/ PollWake \/ SolveAfterWait \/ FocusWake \/ StepWake
  \/ SettleWake
  \/ RunAfterSolve \/ RunCatch

SpecRunFair == InitRun /\ [][NextRun]_vars /\ WF_vars(BotStep)

(***************************************************************************)
(* Properties of run (specification SpecRun).                              *)
(***************************************************************************)
FatalDiagnostics ==
  {"BoardTimeout", "BoardNotFound", "StartCellNotFound", "InvalidMove", "FetchFailed"}

\* C8: a run in which the Input Driver aborted (board timeout, board or
\* start cell missing, non-adjacent pair) or the retrieval failed ends
\* reporting failure, and never reports that the bot completed successfully.
C8_FatalReportsFailure ==
  (pc \in {"success", "failed"} /\ console \cap FatalDiagnostics # {}) =>
    /\ "BotFailed" \in console
    /\ "BotCompleted" \notin console

DriverStarted ==
  \/ pc \in {"solve", "polling", "waited", "focusSleep", "stepping", "settle",
              "solved", "success"}
  \/ events # <<>>
  \/ boardReady # "none"

\* C12: in one run fetchPuzzle issues at most one request and never a
\* second one; after a non-success status it has thrown an error whose
\* message carries the status code and the response body, puzzle, gridSize
\* and solution are what they were before the request, and the Input Driver
\* is not started: the run goes to its failure report.
C12_HttpErrorFailsOnce ==
  /\ Len(requests) <= 1
  /\ (response.kind = "http" /\ ~response.ok) =>
       /\ Len(requests) = 1
       /\ fetchError.name = "Error"
       /\ fetchError.message = << "HTTP ", response.status, ": " >> \o response.body
       /\ puzzle = NoPuzzle /\ gridSize = 0 /\ solution = <<>>
       /\ ~DriverStarted
       /\ pc \in {"caught", "failed"}
       /\ pc = "failed" => ("BotFailed" \in console /\ "BotCompleted" \notin console)

C12_Witness ==
  /\ pc = "failed"
  /\ response.kind = "http" /\ response.status = "403"
  /\ fetchError.message = << "HTTP ", "403", ": ", "CSRF check failed" >>
  /\ Len(requests) = 1 /\ requests[1].url = FreshUrl
  /\ "BotFailed" \in console

DiscoveryStarted == WrapperWasInstalled \/ DiscoveryConcluded
RetrieverStarted == requests # <<>>
RunRaised == pc \in {"uncaught", "caught", "failed"}

StagesInOrder ==
  /\ \A i \in 2..Len(uiClicks) : uiClicks[i] # "launch"
  /\ pc \in {"runStart", "launchSleep", "uncaught"} =>
       (~DiscoveryStarted /\ ~RetrieverStarted /\ ~DriverStarted)
  /\ (DiscoveryStarted /\ ~DiscoveryConcluded) => (~RetrieverStarted /\ ~DriverStarted)
  /\ RetrieverStarted =>
       /\ detectResult.state = "fulfilled"
       /\ windowFetch = "native"
       /\ Len(requests) = 1
       /\ requests[1].url = detectResult.value
       /\ nativeCalls[Len(nativeCalls)] = [str |-> TRUE, url |-> detectResult.value]
  /\ (RetrieverStarted /\ response = NoResponse) => ~DriverStarted
  /\ DriverStarted =>
       /\ RetrieverStarted
       /\ response.kind = "http" /\ response.ok
       /\ fetchError = NoError
  /\ detectResult.state = "rejected" => (~RetrieverStarted /\ ~DriverStarted)
  /\ fetchError # NoError => ~DriverStarted

StagesStep ==
  /\ (pc = "runStart" /\ pc' # pc /\ uiClicks' = uiClicks) => pc' = "detect"
  /\ RunRaised =>
       /\ pc' \in {pc, "failed"}
       /\ UNCHANGED <<uiClicks, windowFetch, detectResult, requests, response, events,
                      boardReady, botVars>>

\* C14: run() executes its stages in the order launch click, discovery,
\* retrieval, input driver, each one starting only after the previous one
\* concluded; without a launch control discovery is the next step; the one
\* request of the retriever is for the URL discovery returned; and after a
\* stage raised no later stage acts.
C14_StagesInSequence == []StagesInOrder /\ [][StagesStep]_vars

C14_Witness ==
  /\ pc = "success"
  /\ uiClicks = << "launch", "refresh-button" >>
  /\ detectResult = Fulfilled(FreshUrl)
  /\ requests[1].url = FreshUrl
  /\ Len(events) > 2

MalformedShapes ==
  {"noIncluded", "emptyIncluded", "noContainer", "noGame", "noGridSize", "noSolution"}

\* C13: on a success response whose envelope misses a field of the
\* traversal path (no or an empty included list, no puzzle container, no
\* game sub-object, no gridSize, no solution), fetchPuzzle fails with an
\* error and returns no Puzzle.
C13_MalformedFails ==
  (response.kind = "http" /\ response.ok /\ response.shape \in MalformedShapes) =>
    /\ pc = "rejected"
    /\ fetchError # NoError
    /\ "PuzzleFetched" \notin console \/ response.shape = "noSolution"

\* What each of the four sources yields: a token, or Null for nothing.
QuotedCookieYield(pg) ==
  IF QuotedSessionRows(pg.cookie) = {} THEN Null
  ELSE pg.cookie[Min(QuotedSessionRows(pg.cookie))].value

MetaTagYield(pg) == IF pg.meta.present THEN pg.meta.content ELSE Null

SessionCookieYield(pg) ==
  IF SessionRows(pg.cookie) = {} THEN Null
  ELSE BeforeEq(pg.cookie[Min(SessionRows(pg.cookie))].value)

StoredYield(pg) == pg.stored

FirstYield(pg) ==
  IF QuotedCookieYield(pg) # Null THEN QuotedCookieYield(pg)
  ELSE IF MetaTagYield(pg) # Null THEN MetaTagYield(pg)
  ELSE IF SessionCookieYield(pg) # Null THEN SessionCookieYield(pg)
  ELSE StoredYield(pg)

RequestIssued == requests # <<>>

\* C15: when automatic detection yields no token and a token was set
\* through setCSRFToken before the request, the csrf-token header of the
\* puzzle request carries the token that was set.
C15_ManualTokenSent ==
  (RequestIssued /\ manualCSRFToken # Null /\ getCSRFToken(page) = Null) =>
    requests[1].csrfToken = manualCSRFToken

\* C18: the csrf-token header of the puzzle request is what the first
\* source in the order quoted session cookie, metadata tag, session-id
\* cookie, stored value that yields a token yields; it is empty only when
\* none of the four yields one, and the request is issued all the same.
C18_FirstSourceWins ==
  /\ pc # "fetch" => RequestIssued
  /\ RequestIssued =>
       /\ requests[1].csrfToken = FirstYield(page)
       /\ requests[1].csrfToken = Null =>
            /\ QuotedCookieYield(page) = Null /\ MetaTagYield(page) = Null
            /\ SessionCookieYield(page) = Null /\ StoredYield(page) = Null

(***************************************************************************)
(* Properties of solvePuzzle (specification SpecSolve).                    *)
(***************************************************************************)
\* The coordinates of a cell and the move between two cells, from the data
\* model: row*N + col = id with 0 <= col < N.
RowOf(id, n) == CHOOSE r \in 0..id : \E c \in 0..(n - 1) : r * n + c = id
ColOf(id, n) == id - RowOf(id, n) * n
MoveOf(a, b, n) ==
  IF RowOf(b, n) = RowOf(a, n) /\ ColOf(b, n) = ColOf(a, n) + 1 THEN "ArrowRight"
  ELSE IF RowOf(b, n) = RowOf(a, n) /\ ColOf(b, n) = ColOf(a, n) - 1 THEN "ArrowLeft"
  ELSE IF RowOf(b, n) = RowOf(a, n) + 1 /\ ColOf(b, n) = ColOf(a, n) THEN "ArrowDown"
  ELSE IF RowOf(b, n) = RowOf(a, n) - 1 /\ ColOf(b, n) = ColOf(a, n) THEN "ArrowUp"
  ELSE "null"

BadPairs == {j \in 1..(Len(solution) - 1) : MoveOf(solution[j], solution[j + 1], gridSize) = "null"}
FirstBadPair == IF BadPairs = {} THEN 0 ELSE Min(BadPairs)

IsKey(e) == e.type \in {"keydown", "keyup"}
KeysDispatched == SelectSeq(events, IsKey)
TypeAndKey(evs) == [i \in 1..Len(evs) |-> << evs[i].type, evs[i].key >>]

StartCellActivated == \E i \in 1..Len(events) : events[i].type = "click"
ReplayOver == StartCellActivated /\ pc # "stepping"

\* Key-down then key-up for each of the pairs 1..k at which pressed[j] holds.
RECURSIVE KeysOfPairs(_, _)
KeysOfPairs(k, pressed) ==
  IF k = 0 THEN <<>>
  ELSE KeysOfPairs(k - 1, pressed) \o
       (IF pressed[k]
        THEN << << "keydown", MoveOf(solution[k], solution[k + 1], gridSize) >>,
                << "keyup", MoveOf(solution[k], solution[k + 1], gridSize) >> >>
        ELSE <<>>)

AlwaysPressed == [j \in 1..Len(solution) |-> TRUE]

\* C6: when waitForGameBoard timed out (returned false), neither the
\* start-cell click nor any key event is ever dispatched, whatever the
\* page does afterwards.
C6_TimeoutDispatchesNothing ==
  boardReady = "false" =>
    \A i \in 1..Len(events) : events[i].type \notin {"click", "keydown", "keyup"}

ExampleKeys ==
  << << "keydown", "ArrowRight" >>, << "keyup", "ArrowRight" >>,
     << "keydown", "ArrowDown" >>, << "keyup", "ArrowDown" >>,
     << "keydown", "ArrowDown" >>, << "keyup", "ArrowDown" >>,
     << "keydown", "ArrowRight" >>, << "keyup", "ArrowRight" >> >>

DriverRank(p) ==
  IF p = "solve" THEN 0
  ELSE IF p \in {"polling", "waited"} THEN 1
  ELSE IF p = "focusSleep" THEN 2
  ELSE IF p = "stepping" THEN 3
  ELSE IF p = "settle" THEN 4
  ELSE 5

DriverEventsInOrder ==
  /\ Len(events) >= 1 => events[1] = FocusEvent
  /\ Len(events) >= 2 => events[2] = ClickEvent(solution[1])
  /\ \A i \in 3..Len(events) : IsKey(events[i])
  /\ DriverRank(pc) <= 1 => events = <<>>
  /\ DriverRank(pc) = 2 => events = << FocusEvent >>
  /\ DriverRank(pc) \in {3, 4} => Len(events) >= 2
  /\ DriverRank(pc) = 3 => stepIdx \in 1..Len(solution)
  /\ "StartCellNotFound" \in console => (pc = "solved" /\ events = << FocusEvent >>)

DriverStep ==
  /\ \/ DriverRank(pc') \in {DriverRank(pc), DriverRank(pc) + 1}
     \/ pc' = "solved"
  /\ (pc = "focusSleep" /\ pc' # pc) =>
       IF solution[1] \in dom.cells
       THEN pc' = "stepping" /\ events' = Append(events, ClickEvent(solution[1]))
       ELSE pc' = "solved" /\ events' = events /\ "StartCellNotFound" \in console'

\* C16: the driver passes Idle, AwaitingBoard, Focused, Started,
\* Stepping(i) and the end in that order, one state at a time or straight to
\* the end; the board root is focused before the start cell is activated,
\* solution[0] is activated exactly once and before any key event, and when
\* its element is absent the driver ends with no activation and no key event.
C16_DriverStatesInOrder == []DriverEventsInOrder /\ [][DriverStep]_vars

C16_Witness ==
  /\ pc = "solved"
  /\ "StartCellNotFound" \in console
  /\ dom.board /\ dom.cells # {} /\ solution[1] \notin dom.cells
  /\ events = << FocusEvent >>

(***************************************************************************)
(* Properties of getDirection (specification SpecDirection).               *)
(***************************************************************************)
Abs(x) == IF x < 0 THEN 0 - x ELSE x
Max2(x, y) == IF x < y THEN y ELSE x

\* C10: with (r1,c1), (r2,c2) the coordinates of a and b on the N x N grid
\* (r*N + c = id, 0 <= c < N), getDirection(a, b) is null iff a = b or the
\* Chebyshev distance exceeds 1 or both deltas are nonzero; otherwise it is
\* Up for row-1, Down for row+1, Left for col-1, Right for col+1; the
\* consecutive identifiers N-1 and N, across a row boundary, yield no move.
C10_DirectionIffUnitStep ==
  pc = "directionDone" =>
    \E r1, c1, r2, c2 \in 0..(gridSize - 1) :
      /\ r1 * gridSize + c1 = dirFrom
      /\ r2 * gridSize + c2 = dirTo
      /\ dirResult = "null" <=>
           \/ dirFrom = dirTo
           \/ Max2(Abs(r2 - r1), Abs(c2 - c1)) > 1
           \/ (r2 # r1 /\ c2 # c1)
      /\ dirResult = "ArrowUp" <=> (r2 = r1 - 1 /\ c2 = c1)
      /\ dirResult = "ArrowDown" <=> (r2 = r1 + 1 /\ c2 = c1)
      /\ dirResult = "ArrowLeft" <=> (r2 = r1 /\ c2 = c1 - 1)
      /\ dirResult = "ArrowRight" <=> (r2 = r1 /\ c2 = c1 + 1)
      /\ dirResult \in {"null", "ArrowUp", "ArrowDown", "ArrowLeft", "ArrowRight"}
      /\ (dirFrom = gridSize - 1 /\ dirTo = gridSize) => dirResult = "null"

C10_Witness ==
  /\ pc = "directionDone"
  /\ gridSize = 3 /\ dirFrom = 2 /\ dirTo = 3
  /\ dirResult = "null"

\* C11: for every gridSize N >= 1 and every id with 0 <= id < N*N,
\* indexToCoords(id) is {row, col} with row*N + col = id, 0 <= row < N and
\* 0 <= col < N (row = id div N, col = id mod N).
C11_CoordsInvertIndex ==
  pc = "directionDone" =>
    /\ gridSize >= 1
    /\ \A side \in {"from", "to"} :
         LET id == IF side = "from" THEN dirFrom ELSE dirTo
             c == dirCoords[side]
         IN  /\ 0 <= id /\ id < gridSize * gridSize
             /\ c.row * gridSize + c.col = id
             /\ 0 <= c.row /\ c.row < gridSize
             /\ 0 <= c.col /\ c.col < gridSize

C11_Witness ==
  /\ pc = "directionDone"
  /\ gridSize = 3 /\ dirFrom = 7 /\ dirTo = 8
  /\ dirCoords = [from |-> [row |-> 2, col |-> 1], to |-> [row |-> 2, col |-> 2]]

====
